---- MODULE Spec2Model ----
(***************************************************************************)
(* A model of nbmolviz/widgets/components.py: the atom inspector, the      *)
(* viewer tool base with its attribute fallback, the selection toolbar     *)
(* (SelBase) and the readout slider (ReadoutFloatSlider).                  *)
(*                                                                         *)
(* Conventions                                                             *)
(*  - A Python set is a duplicate-free sequence: its members in the        *)
(*    iteration order of that set object.  Two set objects are equal       *)
(*    (==) when they have the same members, whatever their orders.         *)
(*  - A trait assignment stores the new value and notifies the observers   *)
(*    only when the new value differs (!=) from the old one.               *)
(*  - A Python string that the code takes apart is a sequence of           *)
(*    one-character strings; a float is a decimal <<m, k>> = m / 10^k      *)
(*    in lowest form.                                                      *)
(***************************************************************************)
EXTENDS Integers, Sequences, FiniteSets, TLC

VARIABLES
    \* ---- AtomInspector ----
    insp_call,              \* the call made last: its name and arguments
    insp_ret,               \* the display string it returned (a sequence of pieces)
    \* ---- ViewerToolBase ----
    tool_dict,              \* the attributes the tool instance holds, with their values
    viewer_dict,            \* the attributes the wrapped viewer has, with their values
    tool_event,             \* the operation handled last
    lookup_ret,             \* the outcome of the last attribute lookup on the tool
    \* ---- SelBase (selection toolbar) ----
    selected_atom_indices,  \* viewer.selected_atom_indices (a set object)
    atom_list_options,      \* atom_list.options
    atom_list_value,        \* atom_list.value (the highlighted options)
    notified_indices,       \* history: the set object of the last change notification
    sel_event,              \* the operation handled last
    sel_ret,                \* what that operation returned to its caller
    \* ---- ReadoutFloatSlider ----
    value,                  \* the component's value trait (a float)
    description,            \* the component's description trait
    header_value,           \* header.value (the label's text)
    slider_value,           \* slider.value (the slider primitive)
    slider_disabled,        \* slider.disabled
    readout_value,          \* readout.value (the text field's text)
    readout_disabled,       \* readout.disabled
    formatstring,           \* self.formatstring
    slider_min,             \* slider.min
    slider_max,             \* slider.max
    slider_event,           \* the operation handled last, and how it ended
    slider_raised           \* the exception that operation raised to its caller

slider_vars == <<value, description, header_value, slider_value, slider_disabled,
                 readout_value, readout_disabled, formatstring, slider_min,
                 slider_max, slider_event, slider_raised>>

sel_vars == <<selected_atom_indices, atom_list_options, atom_list_value,
              notified_indices, sel_event, sel_ret>>

insp_vars == <<insp_call, insp_ret>>

tool_vars == <<tool_dict, viewer_dict, tool_event, lookup_ret>>

vars == <<insp_vars, tool_vars, sel_vars, slider_vars>>

\* The components share nothing: an operation of one leaves the others alone.
InspFrame == UNCHANGED <<tool_vars, sel_vars, slider_vars>>
ToolFrame == UNCHANGED <<insp_vars, sel_vars, slider_vars>>
SelFrame == UNCHANGED <<insp_vars, tool_vars, slider_vars>>
SliderFrame == UNCHANGED <<insp_vars, tool_vars, sel_vars>>

-----------------------------------------------------------------------------
(* Bounds *)

NAtoms == 3

\* The longest text typed into the readout field.
MaxLen == 3

\* The most atoms handed to the inspector in one call.
MaxAtoms == 2

\* How many values a viewer attribute is seen to take.
MaxVersion == 2

-----------------------------------------------------------------------------
(* Helpers *)

None == "None"

Range(s) == {s[k] : k \in DOMAIN s}

\* The Python set objects over S: every duplicate-free sequence of members.
SetObjects(S) ==
    {s \in UNION {[1..n -> S] : n \in 0..Cardinality(S)} :
        \A i, j \in DOMAIN s : i # j => s[i] # s[j]}

\* set == set in Python: same members.
SetEq(a, b) == Range(a) = Range(b)

SelectSeqIn(s, S) == SelectSeq(s, LAMBDA x : x \in S)

-----------------------------------------------------------------------------
(* AtomInspector *)

\* The atoms handed to the inspector: every combination of a chain name that
\* is null or not, a residue whose own chain is named or not, and a residue
\* type that is 'placeholder' (atom 0, "CA") or not (atom 1, "N").
InspAtom(i, c, rc, t) ==
    [name |-> <<"CA", "N">>[i + 1], symbol |-> <<"C", "N">>[i + 1], index |-> i,
     molecule_name |-> "mol",
     chain_name |-> c,
     residue |-> [name |-> <<"ALA1", "GLY2">>[i + 1],
                  resname |-> <<"ALA", "GLY">>[i + 1],
                  index |-> i + 1, type |-> t, chain_name |-> rc]]

InspAtoms ==
    {InspAtom(IF t = "placeholder" THEN 0 ELSE 1, c, rc, t) :
        c \in {None, "A"}, rc \in {None, "B"}, t \in {"placeholder", "protein"}}

\* '%s' % x
FmtS(x) == x

\* '%d' % n
FmtD(n) == ToString(n)

\* sep.join(parts), each part a sequence of pieces.
RECURSIVE Join(_, _)
Join(sep, parts) ==
    IF parts = <<>> THEN <<>>
    ELSE IF Len(parts) = 1 THEN parts[1]
    ELSE parts[1] \o <<sep>> \o Join(sep, Tail(parts))

MoleculeLine(atom) == <<"<b>Molecule</b>: ", FmtS(atom.molecule_name), "<br>">>

\* The chain named is the residue's chain (chain = res.chain).
ChainLine(atom) == <<"<b>Chain</b> ", FmtS(atom.residue.chain_name), "<br>">>

ResidueLine(atom) ==
    <<"<b>Residue</b> ", FmtS(atom.residue.name), ", index ",
      FmtD(atom.residue.index), "<br>">>

AtomLine(atom) ==
    <<"<b>Atom</b> ", FmtS(atom.name), " (", FmtS(atom.symbol), "), index ",
      FmtD(atom.index), "<br>">>

\* atom.chain.name is not None
ShowChainLine(atom) == atom.chain_name # None

\* A plausible slip: the comparison inverted.
ShowResidueLineInverted(atom) == atom.residue.type = "placeholder"

\* atom.residue.type != 'placeholder'
ShowResidueLine(atom) == atom.residue.type # "placeholder"

\* The len(atoms) == 1 branch.
OneAtomValue(atom) ==
    LET lines == <<MoleculeLine(atom)>>
                 \o (IF ShowChainLine(atom) THEN <<ChainLine(atom)>> ELSE <<>>)
                 \o (IF ShowResidueLine(atom) THEN <<ResidueLine(atom)>> ELSE <<>>)
                 \o <<AtomLine(atom)>>
    IN  Join("\n", lines)

\* A plausible slip: the chain named as in the one-atom branch, through the
\* residue (res.chain) rather than the atom.
AtStringResidueChain(a) ==
    <<"<b>", FmtS(a.name), "</b>, index ", FmtD(a.index), " / res <b>",
      FmtS(a.residue.resname), "</b>, index ", FmtD(a.residue.index),
      " / chain <b>", FmtS(a.residue.chain_name), "</b>">>

\* One entry of the len(atoms) > 1 branch.
AtString(a) ==
    <<"<b>", FmtS(a.name), "</b>, index ", FmtD(a.index), " / res <b>",
      FmtS(a.residue.resname), "</b>, index ", FmtD(a.residue.index),
      " / chain <b>", FmtS(a.chain_name), "</b>">>

\* A plausible slip: the first test written as len(atoms) <= 1.
AtomsToValueOneIsEmpty(atoms) ==
    IF Len(atoms) <= 1 THEN <<"No selection">>
    ELSE Join("<br>", [k \in 1..Len(atoms) |-> AtString(atoms[k])])

\* AtomInspector.atoms_to_value
AtomsToValue(atoms) ==
    IF Len(atoms) = 0 THEN <<"No selection">>
    ELSE IF Len(atoms) = 1 THEN OneAtomValue(atoms[1])
    ELSE Join("<br>", [k \in 1..Len(atoms) |-> AtString(atoms[k])])

\* AtomInspector.indices_to_value: map() gives the list of indicated atoms.
IndicesToValue(atom_indices, atoms) ==
    AtomsToValue([k \in 1..Len(atom_indices) |-> atoms[atom_indices[k] + 1]])

AtomLists == UNION {[1..n -> InspAtoms] : n \in 0..MaxAtoms}

IndexLists(atoms) == UNION {[1..n -> 0..(Len(atoms) - 1)] : n \in 0..MaxAtoms}

\* A call about to be made, with its arguments.
Pending(atoms, atom_indices) ==
    /\ insp_call = [op |-> "pending", atoms |-> atoms, atom_indices |-> atom_indices]
    /\ insp_ret = None

InspInit ==
    \E atoms \in AtomLists : \E atom_indices \in IndexLists(atoms) :
        Pending(atoms, atom_indices)

InspIdle == Pending(<<>>, <<>>)

\* The call atoms_to_value(atoms).
CallAtomsToValue ==
    /\ insp_call.op = "pending"
    /\ insp_call' = [insp_call EXCEPT !.op = "atoms_to_value"]
    /\ insp_ret' = AtomsToValue(insp_call.atoms)
    /\ InspFrame

\* The call indices_to_value(atom_indices, atoms).
CallIndicesToValue ==
    /\ insp_call.op = "pending"
    /\ insp_call' = [insp_call EXCEPT !.op = "indices_to_value"]
    /\ insp_ret' = IndicesToValue(insp_call.atom_indices, insp_call.atoms)
    /\ InspFrame

InspNext ==
    \/ CallAtomsToValue
    \/ CallIndicesToValue

-----------------------------------------------------------------------------
(* ViewerToolBase *)

\* The attributes ViewerToolBase.__init__ sets on the instance.
ToolInitAttrs == {"mol", "toolpane", "viewer", "subtools", "viewer_pane", "main_pane"}

\* The attributes the class defines.
ToolClassAttrs == {"VIEWERTYPE"}

\* Names a viewer may or may not have, and names the tool may come to define.
ViewerNames == {"selected_atom_indices", "draw", "mol"}
ToolNames == {"draw", "atom_list"}

LookupNames == ToolInitAttrs \cup ToolClassAttrs \cup ViewerNames \cup ToolNames \cup {"nope"}

ToolValue(name) == <<"tool", name>>
ViewerValue(name, version) == <<"viewer", name, version>>

\* Ordinary lookup finds the name on the instance or its class.
ToolDefines(item) == item \in (DOMAIN tool_dict) \cup ToolClassAttrs

\* hasattr(self.viewer, item)
ViewerHasAttr(item) == item \in DOMAIN viewer_dict

\* A plausible slip: raise AttributeError() without the name.
RaiseAttributeErrorUnnamed(item) ==
    [item |-> item, outcome |-> "AttributeError", val |-> None]

\* raise AttributeError(item)
RaiseAttributeError(item) ==
    [item |-> item, outcome |-> "AttributeError", val |-> item]

\* ViewerToolBase.__getattr__, called when ordinary lookup fails.  Reading
\* self.viewer while the instance has no viewer re-enters __getattr__ without
\* end, until the interpreter's recursion limit.
GetAttrFallback(item) ==
    IF "viewer" \notin DOMAIN tool_dict
    THEN [item |-> item, outcome |-> "RecursionError", val |-> None]
    ELSE IF ViewerHasAttr(item)
    THEN [item |-> item, outcome |-> "value", val |-> viewer_dict[item]]
    ELSE RaiseAttributeError(item)

\* tool.<item>
Lookup(item) ==
    IF item \in DOMAIN tool_dict
    THEN [item |-> item, outcome |-> "value", val |-> tool_dict[item]]
    ELSE IF item \in ToolClassAttrs
    THEN [item |-> item, outcome |-> "value", val |-> ToolValue(item)]
    ELSE GetAttrFallback(item)

\* State after ViewerToolBase.__init__.
ToolInit ==
    /\ tool_dict = [n \in ToolInitAttrs |-> ToolValue(n)]
    /\ viewer_dict = [n \in {"selected_atom_indices"} |-> ViewerValue(n, 1)]
    /\ tool_event = "init"
    /\ lookup_ret = None

ToolIdle == ToolInit

\* An attribute of the tool is looked up.
GetAttr(item) ==
    /\ lookup_ret' = Lookup(item)
    /\ tool_event' = "getattr"
    /\ UNCHANGED <<tool_dict, viewer_dict>>
    /\ ToolFrame

\* The viewer gains an attribute, or an attribute of it takes a new value.
ViewerSetAttr(name, version) ==
    /\ viewer_dict' = [n \in (DOMAIN viewer_dict) \cup {name} |->
                          IF n = name THEN ViewerValue(name, version) ELSE viewer_dict[n]]
    /\ viewer_dict' # viewer_dict
    /\ tool_event' = "viewer_set"
    /\ UNCHANGED <<tool_dict, lookup_ret>>
    /\ ToolFrame

\* The viewer loses an attribute.
ViewerDelAttr(name) ==
    /\ name \in DOMAIN viewer_dict
    /\ viewer_dict' = [n \in (DOMAIN viewer_dict) \ {name} |-> viewer_dict[n]]
    /\ tool_event' = "viewer_del"
    /\ UNCHANGED <<tool_dict, lookup_ret>>
    /\ ToolFrame

\* The tool (a subclass's __init__, say) sets an attribute of its own.
ToolSetAttr(name) ==
    /\ name \notin DOMAIN tool_dict
    /\ tool_dict' = [n \in (DOMAIN tool_dict) \cup {name} |-> ToolValue(n)]
    /\ tool_event' = "tool_set"
    /\ UNCHANGED <<viewer_dict, lookup_ret>>
    /\ ToolFrame

ToolNext ==
    \/ \E item \in LookupNames : GetAttr(item)
    \/ \E name \in ViewerNames, version \in 1..MaxVersion : ViewerSetAttr(name, version)
    \/ \E name \in ViewerNames : ViewerDelAttr(name)
    \/ \E name \in ToolNames : ToolSetAttr(name)

-----------------------------------------------------------------------------
(* The molecule *)

AtomIndices == 0..(NAtoms - 1)

\* mol.atoms[i]: an atom object, told apart by its index and name.
MolAtom(i) == [index |-> i, name |-> <<"atom", i>>]

\* mol.atoms, an ordered collection indexable by integer (from 0).
MolAtoms == [k \in 1..NAtoms |-> MolAtom(k - 1)]

-----------------------------------------------------------------------------
(* SelBase *)

\* A plausible slip: the index taken as counting from 1 (atoms[i - 1], which
\* for index 0 is Python's atoms[-1], the last atom).
AtomAtIndexOneBased(i) == MolAtoms[IF i = 0 THEN NAtoms ELSE i]

\* self.mol.atoms[atom_index]
AtomAtIndex(i) == MolAtoms[i + 1]

\* SelBase._atom_indices_to_atoms: one atom per index, in iteration order.
AtomIndicesToAtoms(atom_indices) ==
    [k \in 1..Len(atom_indices) |-> AtomAtIndex(atom_indices[k])]

\* A plausible slip: range(1, len(atoms)).
AllAtomIndicesFrom1 == [k \in 1..(NAtoms - 1) |-> k]

\* set(i for i, atom in enumerate(self.mol.atoms)): a fresh set filled in
\* ascending order, which it also iterates in.
AllAtomIndices == [k \in 1..NAtoms |-> k - 1]

\* A plausible slip: the property reads the unused, empty self._atomset.
SelectedAtomsFromAtomset == AtomIndicesToAtoms(<<>>)

\* SelBase.selected_atoms: recomputed from the viewer's set on every access.
SelectedAtoms == AtomIndicesToAtoms(selected_atom_indices)

\* What SelectMultiple does to its value when its options change: it keeps
\* the highlighted options that are still offered, or clears the highlight.
HighlightAfter(options) ==
    {<<>>, SelectSeqIn(atom_list_value, Range(options))}

\* The directional link's update: the converted source value.
LinkTarget(new) == AtomIndicesToAtoms(new)

\* viewer.selected_atom_indices = new.  The trait stores the new set object;
\* observers (the directional link) run only if it differs from the old one.
SetSelection(new) ==
    /\ selected_atom_indices' = new
    /\ IF SetEq(new, selected_atom_indices)
       THEN UNCHANGED <<atom_list_options, atom_list_value, notified_indices>>
       ELSE /\ atom_list_options' = LinkTarget(new)
            /\ atom_list_value' \in HighlightAfter(LinkTarget(new))
            /\ notified_indices' = new

\* State after SelBase.__init__ over a viewer whose selection is s: making
\* the link sets the options to the converted selection.
SelBuilt(s) ==
    /\ selected_atom_indices = s
    /\ atom_list_options = LinkTarget(s)
    /\ atom_list_value = <<>>
    /\ notified_indices = s
    /\ sel_event = "init"
    /\ sel_ret = None

SelInit == \E s \in SetObjects(AtomIndices) : SelBuilt(s)

\* A toolbar over a viewer with nothing selected, left alone.
SelIdle == SelBuilt(<<>>)

\* Direct assignment of a set of the molecule's atom indices to the viewer's
\* selection (from code, or by the viewer when atoms are clicked).
AssignSelection(new) ==
    /\ SetSelection(new)
    /\ sel_event' = "assign"
    /\ SelFrame
    /\ sel_ret' = None

\* SelBase.select_all_atoms (the 'Select all atoms' button).
select_all_atoms ==
    /\ SetSelection(AllAtomIndices)
    /\ sel_event' = "select_all"
    /\ SelFrame
    /\ sel_ret' = None

\* SelBase.clear_selections (the 'Clear all selections' button).
clear_selections ==
    /\ SetSelection(<<>>)
    /\ sel_event' = "clear"
    /\ SelFrame
    /\ sel_ret' = None

\* Reading the selected_atoms property.
ReadSelectedAtoms ==
    /\ sel_ret' = SelectedAtoms
    /\ sel_event' = "read"
    /\ SelFrame
    /\ UNCHANGED <<selected_atom_indices, atom_list_options, atom_list_value,
                   notified_indices>>

\* SelBase.remove_atomlist_highlight.
remove_atomlist_highlight ==
    /\ atom_list_value' = <<>>
    /\ sel_event' = "remove_highlight"
    /\ SelFrame
    /\ sel_ret' = None
    /\ UNCHANGED <<selected_atom_indices, atom_list_options, notified_indices>>

\* The user highlights some of the offered options in the list.
HighlightOptions(S) ==
    /\ atom_list_value' = SelectSeqIn(atom_list_options, S)
    /\ atom_list_value' # atom_list_value
    /\ sel_event' = "highlight"
    /\ SelFrame
    /\ sel_ret' = None
    /\ UNCHANGED <<selected_atom_indices, atom_list_options, notified_indices>>

\* The option lists assigned to the list from its own side: no atom, one
\* atom of the molecule, or all of them.
OptionLists ==
    {AtomIndicesToAtoms(s) : s \in {<<>>, AllAtomIndices} \cup {<<i>> : i \in AtomIndices}}

\* A plausible slip: traitlets.link in place of directional_link, with the
\* atoms converted back, so that the viewer's selection follows the options.
AssignOptionsLinkedBack(opts) ==
    /\ opts # atom_list_options
    /\ atom_list_options' = opts
    /\ atom_list_value' \in HighlightAfter(opts)
    /\ selected_atom_indices' = [k \in 1..Len(opts) |-> opts[k].index]
    /\ notified_indices' = selected_atom_indices'
    /\ sel_event' = "options"
    /\ SelFrame
    /\ sel_ret' = None

\* atom_list.options = opts, assigned on the list's side.  The directional
\* link observes the viewer only, so nothing is carried back to the viewer.
AssignOptions(opts) ==
    /\ opts # atom_list_options
    /\ atom_list_options' = opts
    /\ atom_list_value' \in HighlightAfter(opts)
    /\ sel_event' = "options"
    /\ SelFrame
    /\ sel_ret' = None
    /\ UNCHANGED <<selected_atom_indices, notified_indices>>

-----------------------------------------------------------------------------
(* Floats and their text *)

RECURSIVE Pow10(_)
Pow10(k) == IF k = 0 THEN 1 ELSE 10 * Pow10(k - 1)

\* The decimal m / 10^k in lowest form (m >= 0): equal floats, equal pairs.
RECURSIVE Dec(_, _)
Dec(m, k) == IF k > 0 /\ m % 10 = 0 THEN Dec(m \div 10, k - 1) ELSE <<m, k>>

Less(a, b) == a[1] * Pow10(b[2]) < b[1] * Pow10(a[2])

DigitChars == <<"0", "1", "2", "3", "4", "5", "6", "7", "8", "9">>

IsDigit(c) == \E d \in DOMAIN DigitChars : DigitChars[d] = c

DigitVal(c) == (CHOOSE d \in DOMAIN DigitChars : DigitChars[d] = c) - 1

\* The decimal digits of n >= 0.
RECURSIVE Digits(_)
Digits(n) ==
    IF n < 10 THEN <<DigitChars[n + 1]>>
    ELSE Append(Digits(n \div 10), DigitChars[(n % 10) + 1])

\* The last k digits of n, zero-padded.
RECURSIVE FracDigits(_, _)
FracDigits(n, k) ==
    IF k = 0 THEN <<>>
    ELSE Append(FracDigits(n \div 10, k - 1), DigitChars[(n % 10) + 1])

\* The number written by a run of digits.
RECURSIVE DigitsValue(_)
DigitsValue(t) ==
    IF t = <<>> THEN 0
    ELSE 10 * DigitsValue(SubSeq(t, 1, Len(t) - 1)) + DigitVal(t[Len(t)])

DotsOf(t) == {p \in DOMAIN t : t[p] = "."}

\* float(text) succeeds.  Over the characters that occur here (digits, the
\* point, letters other than e) that is: digits with at most one point and at
\* least one digit.
IsFloatText(t) ==
    /\ \A p \in DOMAIN t : IsDigit(t[p]) \/ t[p] = "."
    /\ \E p \in DOMAIN t : IsDigit(t[p])
    /\ Cardinality(DotsOf(t)) <= 1

\* float(text) for such a text.
FloatOf(t) ==
    LET k == IF DotsOf(t) = {} THEN 0
             ELSE Len(t) - (CHOOSE p \in DotsOf(t) : TRUE)
    IN  Dec(DigitsValue(SelectSeq(t, IsDigit)), k)

\* '{}'.format(v): the float's repr, always with a fractional part.
FormatRepr(v) ==
    Digits(v[1] \div Pow10(v[2])) \o <<".">> \o
    (IF v[2] = 0 THEN <<"0">> ELSE FracDigits(v[1] % Pow10(v[2]), v[2]))

\* '{:.0f}'.format(v): rounded to an integer, halves to the even neighbour.
FormatFixed0(v) ==
    LET ip == v[1] \div Pow10(v[2])
        fr == v[1] % Pow10(v[2])
        half == IF v[2] = 0 THEN 1 ELSE 5 * Pow10(v[2] - 1)
        up == v[2] > 0 /\ (fr > half \/ (fr = half /\ ip % 2 = 1))
    IN  Digits(IF up THEN ip + 1 ELSE ip)

\* The format strings a readout slider is built with here.
FormatStrings == {"{}", "{:.0f}"}

\* fmt.format(v)
FormatWith(fmt, v) == IF fmt = "{}" THEN FormatRepr(v) ELSE FormatFixed0(v)

\* self.formatstring.format(v)
Format(v) == FormatWith(formatstring, v)

\* utils.GETFLOAT.search(s): the leftmost numeric substring <<start, end>>
\* (digits, then optionally a point and more digits), or None.
GetFloatSearch(s) ==
    LET starts == {p \in DOMAIN s : IsDigit(s[p])}
    IN  IF starts = {} THEN None
        ELSE LET b == CHOOSE p \in starts : \A q \in starts : p <= q
                 RunEnd(p) == CHOOSE e \in p..Len(s) :
                                /\ \A q \in p..e : IsDigit(s[q])
                                /\ (e = Len(s) \/ ~IsDigit(s[e + 1]))
                 e1 == RunEnd(b)
             IN  IF e1 + 2 <= Len(s) /\ s[e1 + 1] = "." /\ IsDigit(s[e1 + 2])
                 THEN <<b, RunEnd(e1 + 2)>>
                 ELSE <<b, e1>>

-----------------------------------------------------------------------------
(* ReadoutFloatSlider *)

\* kwargs.setdefault('min', 0.0) and kwargs.setdefault('max', 10.0)
DefaultMin == 0
DefaultMax == 10

\* The bounds a slider is built with here: the defaults, and a raised minimum.
MinChoices == {Dec(DefaultMin, 0), Dec(1, 0)}
MaxChoices == {Dec(DefaultMax, 0)}

\* Floats assigned to value or to the slider from outside.
AssignVals == {Dec(0, 0), Dec(5, 0), Dec(25, 1), Dec(15, 0)}

\* Label texts.
DescTexts == {"FloatSlider", "Speed"}

\* The characters typed into the readout: a digit, the point, a letter.
Alphabet == {"5", ".", "x"}

\* Texts pasted into the readout whole: "3.5xyz" and "abc".
ExampleTexts == {<<"3", ".", "5", "x", "y", "z">>, <<"a", "b", "c">>}

\* The slider primitive keeps its value within [min, max].
ClampTo(lo, hi, f) == IF Less(f, lo) THEN lo ELSE IF Less(hi, f) THEN hi ELSE f

Clamp(f) == ClampTo(slider_min, slider_max, f)

\* A plausible slip: the observer is never registered.
UpdateReadoutStale(v) == readout_value

\* update_readout, observing value: the readout text for value v.
UpdateReadout(v) == Format(v)

\* slider.value = f.  The slider clamps f; if its value changes, the link
\* assigns the new value to the component's value, whose change (if any)
\* runs update_readout.  The link does not echo back while it is updating.
SetSliderValue(f) ==
    LET c == Clamp(f)
    IN  /\ slider_value' = c
        /\ IF c = slider_value \/ c = value
           THEN UNCHANGED <<value, readout_value>>
           ELSE /\ value' = c
                /\ readout_value' = UpdateReadout(c)

\* self.value = f.  If the value changes, update_readout runs and the link
\* assigns f to the slider, which clamps it; the clamped value is not echoed
\* back to the component.
SetValue(f) ==
    IF f = value
    THEN UNCHANGED <<value, slider_value, readout_value>>
    ELSE /\ value' = f
         /\ readout_value' = UpdateReadout(f)
         /\ slider_value' = Clamp(f)

\* The two ends of the description link: each assignment that changes one
\* end is copied to the other.
SetDescription(d) ==
    IF d = description
    THEN UNCHANGED <<description, header_value>>
    ELSE description' = d /\ header_value' = d

SetHeader(h) ==
    IF h = header_value
    THEN UNCHANGED <<description, header_value>>
    ELSE header_value' = h /\ description' = h

\* State after ReadoutFloatSlider(format=fmt, min=lo, max=hi, description=d):
\* value is the trait's default 0.0; the value link's construction assigns it
\* to the slider, which clamps it; update_readout() is called once.
SliderBuilt(fmt, lo, hi, d) ==
    /\ formatstring = fmt
    /\ slider_min = lo
    /\ slider_max = hi
    /\ value = Dec(0, 0)
    /\ slider_value = ClampTo(lo, hi, Dec(0, 0))
    /\ description = d
    /\ header_value = d
    /\ readout_value = FormatWith(fmt, Dec(0, 0))
    /\ slider_disabled = FALSE
    /\ readout_disabled = FALSE
    /\ slider_event = [op |-> "init", how |-> "done"]
    /\ slider_raised = None

SliderInit ==
    \E fmt \in FormatStrings, lo \in MinChoices, hi \in MaxChoices :
        SliderBuilt(fmt, lo, hi, "FloatSlider")

\* A slider built with the defaults, left alone.
SliderIdle == SliderBuilt("{}", Dec(DefaultMin, 0), Dec(DefaultMax, 0), "FloatSlider")

Event(op) == [op |-> op, how |-> "done"]

SliderConfig == <<formatstring, slider_min, slider_max>>

\* component.value = f
AssignValue(f) ==
    /\ SetValue(f)
    /\ slider_event' = Event("value")
    /\ SliderFrame
    /\ slider_raised' = None
    /\ UNCHANGED <<description, header_value, slider_disabled, readout_disabled,
                   SliderConfig>>

\* slider.value = f (the user moves the slider, or code assigns it)
AssignSliderValue(f) ==
    /\ SetSliderValue(f)
    /\ slider_event' = Event("slider")
    /\ SliderFrame
    /\ slider_raised' = None
    /\ UNCHANGED <<description, header_value, slider_disabled, readout_disabled,
                   SliderConfig>>

\* A plausible slip: update_readout registered for description as well
\* (observe('value', 'description')), so a new description reformats the readout.
AssignDescriptionReformats(d) ==
    /\ SetDescription(d)
    /\ readout_value' = IF d = description THEN readout_value ELSE UpdateReadout(value)
    /\ slider_event' = Event("description")
    /\ SliderFrame
    /\ slider_raised' = None
    /\ UNCHANGED <<value, slider_value, slider_disabled, readout_disabled,
                   SliderConfig>>

\* component.description = d
AssignDescription(d) ==
    /\ SetDescription(d)
    /\ slider_event' = Event("description")
    /\ SliderFrame
    /\ slider_raised' = None
    /\ UNCHANGED <<value, slider_value, readout_value, slider_disabled,
                   readout_disabled, SliderConfig>>

\* header.value = h
AssignHeader(h) ==
    /\ SetHeader(h)
    /\ slider_event' = Event("header")
    /\ SliderFrame
    /\ slider_raised' = None
    /\ UNCHANGED <<value, slider_value, readout_value, slider_disabled,
                   readout_disabled, SliderConfig>>

\* The user edits the readout text without submitting it (types a character,
\* or clears the field): nothing observes readout.value.
EditReadout(t) ==
    /\ readout_value' = t
    /\ slider_event' = Event("edit")
    /\ SliderFrame
    /\ slider_raised' = None
    /\ UNCHANGED <<value, slider_value, description, header_value,
                   slider_disabled, readout_disabled, SliderConfig>>

TypeChar(c) ==
    /\ Len(readout_value) < MaxLen
    /\ EditReadout(Append(readout_value, c))

ClearReadout ==
    /\ readout_value # <<>>
    /\ EditReadout(<<>>)

PasteText(t) ==
    /\ readout_value # t
    /\ EditReadout(t)

\* A plausible slip: disable() forgets the readout.
disable_slider_only ==
    /\ slider_disabled' = TRUE
    /\ slider_event' = Event("disable")
    /\ SliderFrame
    /\ slider_raised' = None
    /\ UNCHANGED <<value, slider_value, readout_value, description, header_value,
                   readout_disabled, SliderConfig>>

\* ReadoutFloatSlider.disable
disable ==
    /\ slider_disabled' = TRUE
    /\ readout_disabled' = TRUE
    /\ slider_event' = Event("disable")
    /\ SliderFrame
    /\ slider_raised' = None
    /\ UNCHANGED <<value, slider_value, readout_value, description, header_value,
                   SliderConfig>>

\* ReadoutFloatSlider.enable
enable ==
    /\ slider_disabled' = FALSE
    /\ readout_disabled' = FALSE
    /\ slider_event' = Event("enable")
    /\ SliderFrame
    /\ slider_raised' = None
    /\ UNCHANGED <<value, slider_value, readout_value, description, header_value,
                   SliderConfig>>

\* float(s) raises ValueError unless s is a float's text.
FloatRaises(s) == IF IsFloatText(s) THEN None ELSE "ValueError"

\* except ValueError
Caught(e) == e = "ValueError"

\* A plausible slip: the failure branch leaves the text as submitted.
FailureReadoutAsSubmitted == readout_value

\* self.formatstring.format(self.slider.value), the failure branch's readout.
FailureReadout == Format(slider_value)

\* ReadoutFloatSlider.parse_value, the readout's submit handler.  It ends
\* having parsed the whole text ("float"), a numeric substring ("substring"),
\* or nothing, with the message printed ("unparsed"); or it raises.
parse_value ==
    LET s == readout_value
        e == FloatRaises(s)
        match == GetFloatSearch(s)
    IN  /\ SliderFrame
        /\ UNCHANGED <<description, header_value, slider_disabled,
                       readout_disabled, SliderConfig>>
        /\ IF e = None
           THEN /\ SetSliderValue(FloatOf(s))
                /\ slider_event' = [op |-> "submit", how |-> "float"]
                /\ slider_raised' = None
           ELSE IF ~Caught(e)
           THEN /\ slider_event' = [op |-> "submit", how |-> "raised"]
                /\ slider_raised' = e
                /\ UNCHANGED <<value, slider_value, readout_value>>
           ELSE IF match = None
           THEN /\ readout_value' = FailureReadout
                /\ slider_event' = [op |-> "submit", how |-> "unparsed"]
                /\ slider_raised' = None
                /\ UNCHANGED <<value, slider_value>>
           ELSE /\ SetSliderValue(FloatOf(SubSeq(s, match[1], match[2])))
                /\ slider_event' = [op |-> "submit", how |-> "substring"]
                /\ slider_raised' = None

SliderNext ==
    \/ \E f \in AssignVals : AssignValue(f)
    \/ \E f \in AssignVals : AssignSliderValue(f)
    \/ \E d \in DescTexts : AssignDescription(d)
    \/ \E h \in DescTexts : AssignHeader(h)
    \/ \E c \in Alphabet : TypeChar(c)
    \/ ClearReadout
    \/ \E t \in ExampleTexts : PasteText(t)
    \/ parse_value
    \/ disable
    \/ enable

SelNext ==
    \/ \E new \in SetObjects(AtomIndices) : AssignSelection(new)
    \/ select_all_atoms
    \/ clear_selections
    \/ ReadSelectedAtoms
    \/ remove_atomlist_highlight
    \/ \E S \in SUBSET Range(atom_list_options) : HighlightOptions(S)

\* The toolbar over a viewer with any selection, driven by its two buttons
\* and with the list also driven from its own side.
SelListNext ==
    \/ select_all_atoms
    \/ clear_selections
    \/ remove_atomlist_highlight
    \/ \E S \in SUBSET Range(atom_list_options) : HighlightOptions(S)
    \/ \E opts \in OptionLists : AssignOptions(opts)

-----------------------------------------------------------------------------
(* Specifications: one per component; the other components stay idle. *)

InitInspector == InspInit /\ ToolIdle /\ SelIdle /\ SliderIdle

SpecInspector == InitInspector /\ [][InspNext]_vars

InitTool == ToolInit /\ InspIdle /\ SelIdle /\ SliderIdle

SpecTool == InitTool /\ [][ToolNext]_vars

InitSel == SelInit /\ InspIdle /\ ToolIdle /\ SliderIdle

SpecSel == InitSel /\ [][SelNext]_vars

InitSelList == SelInit /\ InspIdle /\ ToolIdle /\ SliderIdle

SpecSelList == InitSelList /\ [][SelListNext]_vars

InitSlider == SliderInit /\ InspIdle /\ ToolIdle /\ SelIdle

SpecSlider == InitSlider /\ [][SliderNext]_vars

-----------------------------------------------------------------------------
(* Properties *)

\* mol.atoms[i] for the indices of a set object, in its iteration order.
AtomsInOrderOf(indices) == [k \in 1..Len(indices) |-> MolAtoms[indices[k] + 1]]

AtomsOf(indices) == {MolAtoms[i + 1] : i \in Range(indices)}

\* C1 as stated: in every state the list's options are the atoms mol.atoms[i]
\* of the indices i in the viewer's current selection, in the iteration order
\* of the current selection.
C1_OptionsInSelectionOrder ==
    atom_list_options = AtomsInOrderOf(selected_atom_indices)

\* C1 amended: in every state the list's options are the atoms mol.atoms[i] of
\* exactly the indices i in the viewer's current selection, each once; their
\* order is the iteration order of the set object whose assignment last
\* changed the selection's members (an equal set assigned later, iterating in
\* another order, leaves the options as they are).
C1_OptionsAreSelectedAtoms ==
    /\ Len(atom_list_options) = Len(selected_atom_indices)
    /\ Range(atom_list_options) = AtomsOf(selected_atom_indices)
    /\ SetEq(notified_indices, selected_atom_indices)
    /\ atom_list_options = AtomsInOrderOf(notified_indices)

\* The selection {0, 2} was assigned and the options are atoms 0 and 2.
C1_Witness ==
    /\ sel_event = "assign"
    /\ selected_atom_indices = <<0, 2>>
    /\ atom_list_options = <<MolAtoms[1], MolAtoms[3]>>

\* C2: after select_all_atoms the viewer's selection is exactly {0..N-1}, and
\* after clear_selections it is empty, whatever the selection was before.
C2_SelectAllAndClear ==
    /\ sel_event = "select_all" =>
          /\ Range(selected_atom_indices) = AtomIndices
          /\ Len(selected_atom_indices) = NAtoms
    /\ sel_event = "clear" => selected_atom_indices = <<>>

\* Select-all was invoked when every atom was selected already (the list was
\* last notified of another set object with the same members).
C2_Witness ==
    /\ sel_event = "select_all"
    /\ Range(selected_atom_indices) = AtomIndices
    /\ notified_indices # selected_atom_indices

\* The text holds a number: float() takes it whole, or GETFLOAT finds one.
HasNumber(t) == IsFloatText(t) \/ GetFloatSearch(t) # None

SubmittedNumber(t) ==
    IF IsFloatText(t) THEN FloatOf(t)
    ELSE FloatOf(SubSeq(t, GetFloatSearch(t)[1], GetFloatSearch(t)[2]))

\* C3: whenever a text holding a number is submitted, whatever the slider's
\* value, that number becomes the slider's value and the component's value,
\* and the readout text becomes the format string applied to it.
C3_SubmittedNumberBecomesValue ==
    [][(slider_event'.op = "submit" /\ HasNumber(readout_value)) =>
          LET f == SubmittedNumber(readout_value)
          IN  /\ slider_value' = f
              /\ value' = f
              /\ readout_value' = FormatWith(formatstring, f)]_vars

\* C4: when a text holding no number is submitted, no exception reaches the
\* caller, value and the slider's value stay as they were, and the readout
\* text becomes the format string applied to the slider's value.
C4_UnparsableSubmissionResets ==
    [][(slider_event'.op = "submit" /\ ~HasNumber(readout_value)) =>
          /\ slider_raised' = None
          /\ value' = value
          /\ slider_value' = slider_value
          /\ readout_value' = FormatWith(formatstring, slider_value)]_vars

\* A text holding no number was submitted while the value was 5.0, and the
\* readout shows 5.0 again.
C4_Witness ==
    /\ slider_event = [op |-> "submit", how |-> "unparsed"]
    /\ slider_raised = None
    /\ value = Dec(5, 0)
    /\ slider_value = Dec(5, 0)
    /\ readout_value = <<"5", ".", "0">>

\* C5: once an event is handled, the component's value equals the slider's
\* value and the component's description equals the header's value.
C5_Mirrored ==
    /\ value = slider_value
    /\ description = header_value

\* C6: every change of the component's value sets, in the same event, the
\* readout text to the format string applied to the new value; an edit of
\* the readout text that is not submitted leaves value as it was.
C6_ValueChangeReformatsReadout ==
    [][/\ value' # value => readout_value' = FormatWith(formatstring, value')
       /\ slider_event'.op = "edit" => value' = value]_vars

\* "3.5xyz" was submitted and the value is 3.5, shown as 3.5.
C6_Witness ==
    /\ slider_event = [op |-> "submit", how |-> "substring"]
    /\ value = Dec(35, 1)
    /\ readout_value = <<"3", ".", "5">>

C8_LookupFallsBackToViewer ==
    (tool_event = "getattr" /\ ~ToolDefines(lookup_ret.item)) =>
        IF lookup_ret.item \in DOMAIN viewer_dict
        THEN /\ lookup_ret.outcome = "value"
             /\ lookup_ret.val = viewer_dict[lookup_ret.item]
        ELSE /\ lookup_ret.outcome = "AttributeError"
             /\ lookup_ret.val = lookup_ret.item

\* "draw", which only the viewer has, was looked up on the tool.
C8_Witness ==
    /\ tool_event = "getattr"
    /\ "draw" \notin DOMAIN tool_dict
    /\ lookup_ret = [item |-> "draw", outcome |-> "value", val |-> ViewerValue("draw", 2)]

\* C9 as stated: a read of selected_atoms returns the atoms of the viewer's
\* selection as it is at the read, and that list equals the list's options.
C9_ReadEqualsOptions ==
    sel_event = "read" =>
        /\ sel_ret = AtomsInOrderOf(selected_atom_indices)
        /\ sel_ret = atom_list_options

\* C9 amended: a read of selected_atoms returns the atoms of the viewer's
\* selection as it is at the read, in that set's iteration order; it has the
\* same atoms as the list's options, each once, and equals the options
\* whenever the current set object is the one the list was last notified of.
C9_ReadIsCurrentSelection ==
    sel_event = "read" =>
        /\ sel_ret = AtomsInOrderOf(selected_atom_indices)
        /\ Len(sel_ret) = Len(atom_list_options)
        /\ Range(sel_ret) = Range(atom_list_options)
        /\ selected_atom_indices = notified_indices => sel_ret = atom_list_options

\* selected_atoms was read while atoms 2 and 0 were selected.
C9_Witness ==
    /\ sel_event = "read"
    /\ sel_ret = <<MolAtoms[3], MolAtoms[1]>>

\* The parts of a display string between separators.
RECURSIVE Split(_, _)
Split(sep, pieces) ==
    IF \A k \in DOMAIN pieces : pieces[k] # sep THEN <<pieces>>
    ELSE LET p == CHOOSE k \in DOMAIN pieces :
                    pieces[k] = sep /\ \A j \in 1..(k - 1) : pieces[j] # sep
         IN  <<SubSeq(pieces, 1, p - 1)>> \o Split(sep, SubSeq(pieces, p + 1, Len(pieces)))

\* C10: atoms_to_value on one atom returns, in this order, a molecule line, a
\* chain line iff the atom's chain name is not null, a residue line iff the
\* atom's residue type is not 'placeholder', and an atom line with the atom's
\* name, symbol and index.
C10_OneAtomLines ==
    (insp_call.op = "atoms_to_value" /\ Len(insp_call.atoms) = 1) =>
        LET a == insp_call.atoms[1]
            lines == Split("\n", insp_ret)
            heads == [k \in 1..Len(lines) |-> lines[k][1]]
        IN  /\ heads = <<"<b>Molecule</b>: ">>
                       \o (IF a.chain_name # None THEN <<"<b>Chain</b> ">> ELSE <<>>)
                       \o (IF a.residue.type # "placeholder"
                           THEN <<"<b>Residue</b> ">> ELSE <<>>)
                       \o <<"<b>Atom</b> ">>
            /\ lines[1] = <<"<b>Molecule</b>: ", a.molecule_name, "<br>">>
            /\ lines[Len(lines)] = <<"<b>Atom</b> ", a.name, " (", a.symbol,
                                     "), index ", ToString(a.index), "<br>">>

\* One atom with a null chain name and a residue that is no placeholder: three
\* lines, the chain line left out.
C10_Witness ==
    /\ insp_call.op = "atoms_to_value"
    /\ Len(insp_call.atoms) = 1
    /\ insp_call.atoms[1].chain_name = None
    /\ insp_call.atoms[1].residue.type = "protein"
    /\ Len(Split("\n", insp_ret)) = 3

\* The atoms a call hands to atoms_to_value: its argument, or for
\* indices_to_value the atoms at the given indices, in the indices' order.
AtomsShown ==
    IF insp_call.op = "indices_to_value"
    THEN [k \in 1..Len(insp_call.atom_indices) |->
             insp_call.atoms[insp_call.atom_indices[k] + 1]]
    ELSE insp_call.atoms

\* C11: atoms_to_value on k >= 2 atoms returns exactly k entries joined by
\* line breaks, the j-th entry carrying the j-th atom's name, index, residue
\* name (resname), residue index and chain name; indices_to_value returns
\* what atoms_to_value returns on the atoms at the given indices.
C11_OneEntryPerAtom ==
    /\ (insp_call.op # "pending" /\ Len(AtomsShown) >= 2) =>
          LET entries == Split("<br>", insp_ret)
          IN  /\ Len(entries) = Len(AtomsShown)
              /\ \A j \in 1..Len(AtomsShown) :
                    LET a == AtomsShown[j]
                    IN  entries[j] =
                          <<"<b>", a.name, "</b>, index ", ToString(a.index),
                            " / res <b>", a.residue.resname, "</b>, index ",
                            ToString(a.residue.index), " / chain <b>",
                            a.chain_name, "</b>">>
    /\ insp_call.op = "indices_to_value" => insp_ret = AtomsToValue(AtomsShown)

\* indices_to_value was called with the indices 1, 0 over two different
\* atoms: two entries, the second atom's first.
C11_Witness ==
    /\ insp_call.op = "indices_to_value"
    /\ insp_call.atom_indices = <<1, 0>>
    /\ insp_call.atoms[1] # insp_call.atoms[2]
    /\ Len(Split("<br>", insp_ret)) = 2
    /\ Split("<br>", insp_ret)[1][2] = insp_call.atoms[2].name

\* C12: a call of atoms_to_value or indices_to_value returns exactly the
\* string "No selection" when the collection of atoms it is to show is empty,
\* and returns another string whenever that collection is not empty.
C12_NoSelectionIffEmpty ==
    insp_call.op # "pending" =>
        (insp_ret = <<"No selection">> <=> Len(AtomsShown) = 0)

\* atoms_to_value was called on the empty collection.
C12_Witness ==
    /\ insp_call.op = "atoms_to_value"
    /\ insp_call.atoms = <<>>
    /\ insp_ret = <<"No selection">>

\* The operations made on the list's side.
ListSideEvents == {"options", "highlight", "remove_highlight"}

\* C13: no step made on the list's side (an assignment of the list's options,
\* a change of its highlighted value, remove_atomlist_highlight) changes the
\* viewer's selected_atom_indices; remove_atomlist_highlight sets the
\* highlighted value to the empty tuple and leaves the options as they were.
C13_ListSideLeavesViewerAlone ==
    [][/\ sel_event' \in ListSideEvents =>
             selected_atom_indices' = selected_atom_indices
       /\ sel_event' = "remove_highlight" =>
             /\ atom_list_value' = <<>>
             /\ atom_list_options' = atom_list_options]_vars

\* The list's options were set to atom 1 alone from the list's side while
\* the viewer's selection was, and stays, {0, 2}.
C13_Witness ==
    /\ sel_event = "options"
    /\ atom_list_options = <<MolAtoms[2]>>
    /\ selected_atom_indices = <<0, 2>>

\* The operations on the description side, and those on the value side.
DescriptionEvents == {"description", "header"}
ValueEvents == {"value", "slider", "submit", "enable", "disable"}

\* C14: a step that assigns the description or the header label, and any step
\* that changes either, leaves value, the slider's value, the readout text
\* and both disabled flags as they were; a step that assigns value or the
\* slider's value, submits the readout, or calls enable() or disable(), and
\* any step that changes value, leaves description and the header label as
\* they were.
C14_DescriptionAndValueIndependent ==
    [][/\ (\/ slider_event'.op \in DescriptionEvents
           \/ description' # description
           \/ header_value' # header_value) =>
             UNCHANGED <<value, slider_value, readout_value,
                         slider_disabled, readout_disabled>>
       /\ (\/ slider_event'.op \in ValueEvents
           \/ value' # value
           \/ slider_value' # slider_value) =>
             UNCHANGED <<description, header_value>>]_vars

\* The description was changed to "Speed" on a disabled slider whose value is
\* 2.5 and whose readout holds an unsubmitted "x": all of that is as it was.
C14_Witness ==
    /\ slider_event.op = "description"
    /\ description = "Speed"
    /\ header_value = "Speed"
    /\ value = Dec(25, 1)
    /\ slider_value = Dec(25, 1)
    /\ readout_value = <<"x">>
    /\ slider_disabled
    /\ readout_disabled

====
